---- MODULE Spec2Model ----
(***************************************************************************)
(* State-machine model of the SCORM manifest resolution engine             *)
(* (src/src/manifest.rs, parse_manifest and its helpers).                  *)
(*                                                                         *)
(* The XML reader hands parse_manifest one event per loop iteration; the   *)
(* model reads one event per step.  An event is a record                   *)
(*   [kind, name, attrs]  with kind in Start / Empty / End / Text,         *)
(* a qualified name is the sequence of its colon-separated parts           *)
(* (<<"adlcp", "scormtype">> is adlcp:scormtype), and attrs is the         *)
(* attribute list in source order.  Option<T> is modelled as a sequence of *)
(* length 0 (None) or 1 (Some).                                            *)
(***************************************************************************)
EXTENDS Integers, Sequences, FiniteSets, Bags, TLC

\* ------------------------------------------------------------------------
\* Option<T>
\* ------------------------------------------------------------------------
None == <<>>
Some(v) == <<v>>
IsSome(o) == o # <<>>

\* Option::or_else
OrElse(a, b) == IF IsSome(a) THEN a ELSE b

\* ------------------------------------------------------------------------
\* Bounds of the model
\* ------------------------------------------------------------------------
\* deepest nesting of open elements in a generated document
MaxDepth == 3
\* most items recorded from one document
MaxItems == 2
\* most <file> hrefs attached to one resource
MaxFiles == 2
\* most rows of table attempts
MaxAttempts == 2
\* most requests being handled at once
MaxInFlight == 2

\* ------------------------------------------------------------------------
\* Input alphabet: the events the reader can return
\* ------------------------------------------------------------------------
Attr(k, opt) == IF opt = None THEN <<>> ELSE << [key |-> <<k>>, value |-> opt[1]] >>

Ev(kind, nm, attrs) == [kind |-> kind, name |-> <<nm>>, attrs |-> attrs]

OrgIdOpts == {None, Some("A"), Some("B")}

OrganizationsTags(kind) ==
  { Ev(kind, "organizations", Attr("default", d)) : d \in {None, Some("A")} }

OrganizationTags(kind) ==
  { Ev(kind, "organization", Attr("identifier", i)) : i \in OrgIdOpts }

\* an <item> tag from (identifier, identifierref, parameters)
ItemTags(kind, opts) ==
  { Ev(kind, "item", Attr("identifier", a[1]) \o Attr("identifierref", a[2])
                       \o Attr("parameters", a[3])) : a \in opts }

\* a <resource> tag from (identifier, href, scormtype)
ResourceTags(kind, opts) ==
  { Ev(kind, "resource", Attr("identifier", a[1]) \o Attr("href", a[2])
                           \o Attr("scormtype", a[3])) : a \in opts }

FileTags(kind, hrefs) ==
  { Ev(kind, "file", Attr("href", h)) : h \in hrefs }

ItemsBoth == { <<Some("I1"), Some("R1"), None>>, <<Some("I2"), Some("R2"), Some("?p=1")>> }
ItemsPartial ==
  { <<Some("I1"), None, None>>, <<None, Some("R1"), None>>, <<None, None, Some("?p=1")>> }

HrefResources ==
  { <<Some("R1"), Some("a.html"), None>>, <<Some("R2"), Some("b.html"), Some("sco")>> }

\* Manifests of the organization tier: organizations, organization and item
\* tags in any nesting, resources declared by self-closing tags.
OrgStartEvents ==
  OrganizationsTags("Start") \cup OrganizationTags("Start")
    \cup ItemTags("Start", ItemsBoth)

OrgEmptyEvents == ResourceTags("Empty", HrefResources)

\* Manifests of the item tier: item tags in both forms, with and without
\* the attributes, inside and outside an organization.
ItemStartEvents ==
  ItemTags("Start", ItemsBoth \cup ItemsPartial)
    \cup { Ev("Start", "organization", Attr("identifier", Some("A"))) }

ItemEmptyEvents ==
  ItemTags("Empty", ItemsBoth \cup ItemsPartial)
    \cup ResourceTags("Empty", HrefResources)

\* Manifests of the resource tier: resource tags in both forms, self-closing
\* file tags, items outside any organization, in any nesting.
IdResources ==
  { <<Some("R1"), None, None>>,
    <<Some("R1"), Some("a.html"), None>>,
    <<Some("R1"), Some(""), None>>,
    <<Some("R2"), Some("b.html"), Some("sco")>> }

ResAttrOpts == IdResources \cup { <<None, Some("a.html"), None>> }

FileHrefOpts == {None, Some("f.js"), Some("")}

ResStartEvents ==
  ResourceTags("Start", IdResources) \cup ItemTags("Start", ItemsBoth)

ResEmptyEvents ==
  ResourceTags("Empty", IdResources) \cup FileTags("Empty", FileHrefOpts)

\* Manifests of the fallback tier: items inside and outside one organization,
\* three resources declared by self-closing tags, one of them without href.
TierStartEvents ==
  ItemTags("Start", ItemsBoth)
    \cup { Ev("Start", "organization", Attr("identifier", Some("A"))) }

TierEmptyEvents ==
  ResourceTags("Empty", HrefResources \cup { <<Some("R1"), None, None>>,
                                             <<Some("R3"), Some("c.html"), None>> })

\* Manifests of the merge tier: resource and file tags only; resource R1 is
\* declared by open tags, with nested files, and by self-closing tags,
\* resource R2 by self-closing tags.
MergeStartEvents ==
  ResourceTags("Start", ResAttrOpts \ { <<Some("R2"), Some("b.html"), Some("sco")>> })
    \cup FileTags("Start", FileHrefOpts)
    \cup { Ev("Start", "title", <<>>) }

MergeEmptyEvents ==
  ResourceTags("Empty", ResAttrOpts) \cup FileTags("Empty", FileHrefOpts)

\* a local name under a namespace prefix, or under none
Qualified(prefix, local) == IF prefix = None THEN <<local>> ELSE <<prefix[1], local>>

\* the tag e with its element name under prefix pe and every attribute name
\* under prefix pa
Prefixed(e, pe, pa) ==
  [ kind |-> e.kind,
    name |-> Qualified(pe, e.name[Len(e.name)]),
    attrs |-> [ i \in 1..Len(e.attrs) |->
                  [ key |-> Qualified(pa, e.attrs[i].key[Len(e.attrs[i].key)]),
                    value |-> e.attrs[i].value ] ] ]

\* (element prefix, attribute prefix) of the generated tags
NsPrefixes == { <<None, Some("adlcp")>>, <<Some("ims"), None>> }

PrefixedTags(tags) == { Prefixed(e, p[1], p[2]) : e \in tags, p \in NsPrefixes }

\* tags whose prefix, not whose local name, is a name the parser knows
DecoyTags(kind) ==
  { [kind |-> kind, name |-> <<"resource", "note">>,
     attrs |-> Attr("identifier", Some("R1")) \o Attr("href", Some("z.html"))],
    [kind |-> kind, name |-> <<"resource">>,
     attrs |-> << [key |-> <<"href", "lang">>, value |-> "z.html"],
                  [key |-> <<"identifier">>, value |-> "R1"] >>] }

\* Manifests of the namespace tier: every tag with and without a prefix on
\* the element name and on the attribute names.
NsStartEvents ==
  PrefixedTags(ResourceTags("Start", { <<Some("R1"), None, Some("sco")>> }))
    \cup { Prefixed(e, Some("ims"), Some("adlcp")) :
             e \in ItemTags("Start", { <<Some("I1"), Some("R1"), None>> })
                     \cup { Ev("Start", "organization", Attr("identifier", Some("A"))) } }

NsEmptyEvents ==
  PrefixedTags(FileTags("Empty", { Some("f.js") }))
    \cup DecoyTags("Empty")

\* Manifests of the file tier: resource elements with and without an
\* identifier, in both forms and in any nesting, and file tags in both forms.
FileStartEvents ==
  ResourceTags("Start", { <<Some("R1"), None, None>>, <<Some("R2"), Some("b.html"), None>>,
                          <<None, Some("a.html"), None>> })
    \cup FileTags("Start", { Some("f.js") })

FileEmptyEvents ==
  FileTags("Empty", { Some("f.js"), Some("g.js"), None })
    \cup ResourceTags("Empty", { <<Some("R2"), Some("b.html"), None>> })

\* Manifests of the resolution tier: resources with and without a direct
\* href, nested files, items naming them.
ResolveStartEvents ==
  ResourceTags("Start", { <<Some("R1"), None, None>>, <<Some("R2"), Some("b.html"), None>> })
    \cup ItemTags("Start", ItemsBoth)

ResolveEmptyEvents ==
  FileTags("Empty", { Some("index.html"), Some("f.js") })
    \cup ResourceTags("Empty", { <<Some("R1"), Some("a.html"), None>> })

\* Manifests of the launch tier: a resource whose href is spelled like the
\* identifier of another resource, a resource with nested files only, an
\* item naming it, and manifests without items.
LaunchStartEvents ==
  ResourceTags("Start", { <<Some("R3"), None, None>> })
    \cup ItemTags("Start", { <<Some("I1"), Some("R3"), None>> })

LaunchEmptyEvents ==
  ResourceTags("Empty", { <<Some("R1"), Some("R2"), None>>,
                          <<Some("R2"), Some("b.html"), None>> })
    \cup FileTags("Empty", { Some("f.js"), Some("R1") })

\* ------------------------------------------------------------------------
\* Helpers of manifest.rs
\* ------------------------------------------------------------------------
\* mutant: the part before the first colon
qualified_head(name) == name[1]

\* full.split(':').last()
local_name(name) == name[Len(name)]

RECURSIVE AttrScan(_, _)
AttrScan(attrs, key_local) ==
  IF attrs = <<>> THEN None
  ELSE IF local_name(Head(attrs).key) = key_local THEN Some(Head(attrs).value)
  ELSE AttrScan(Tail(attrs), key_local)

\* first attribute whose local name is key_local
get_attr(e, key_local) == AttrScan(e.attrs, key_local)

RECURSIVE NsAttrScan(_, _)
NsAttrScan(attrs, want) ==
  IF attrs = <<>> THEN None
  ELSE IF Head(attrs).key = want THEN Some(Head(attrs).value)
  ELSE NsAttrScan(Tail(attrs), want)

\* first attribute whose qualified name is ns:key
get_ns_attr(e, ns, key) == NsAttrScan(e.attrs, <<ns, key>>)

\* ResourceInfo::default()
DefaultInfo == [href |-> None, files |-> <<>>, scormtype |-> None]

\* resources.get(id) / resources.remove(id).unwrap_or_default()
InfoOrDefault(res, id) == IF id \in DOMAIN res THEN res[id] ELSE DefaultInfo

\* resources.insert(id, info)
Insert(res, id, info) ==
  [k \in DOMAIN res \cup {id} |-> IF k = id THEN info ELSE res[k]]

\* mutant: the fallback is the last nested file
resolve_last_file(res, identifierref) ==
  IF identifierref \notin DOMAIN res THEN None
  ELSE IF IsSome(res[identifierref].href) THEN res[identifierref].href
  ELSE IF res[identifierref].files # <<>>
    THEN Some(res[identifierref].files[Len(res[identifierref].files)])
  ELSE None

resolve_launch_href(res, identifierref) ==
  IF identifierref \notin DOMAIN res THEN None
  ELSE IF IsSome(res[identifierref].href) THEN res[identifierref].href
  ELSE IF res[identifierref].files # <<>> THEN Some(res[identifierref].files[1])
  ELSE None

\* the iteration orders a HashMap over these keys can produce
RECURSIVE Perms(_)
Perms(S) ==
  IF S = {} THEN { <<>> }
  ELSE UNION { { <<x>> \o p : p \in Perms(S \ {x}) } : x \in S }

IterOrders(res) == Perms(DOMAIN res)

RECURSIVE first_resource_href(_, _)
first_resource_href(res, order) ==
  IF order = <<>> THEN None
  ELSE LET r == res[Head(order)] IN
       IF IsSome(r.href) THEN r.href
       ELSE IF r.files # <<>> THEN Some(r.files[1])
       ELSE first_resource_href(res, Tail(order))

\* ------------------------------------------------------------------------
\* State
\* ------------------------------------------------------------------------
VARIABLES
  pc,                             \* "open", "reading", "done" (the loop was left
                                  \* at Eof), "failed" (an early error return)
  opened,                         \* the reader's stack of open element names
  ev,                             \* history: the event the reader returned last
  resources,                      \* resource identifier -> ResourceInfo
  items,                          \* recorded items, in source order
  current_res_id,
  in_organizations,
  default_org_id,
  current_org_id,
  first_item_ref_in_default_org,
  first_item_ref_any,
  iter_order,                     \* the order in which resources.iter() yields
  ret,                            \* what parse_manifest returned
  org_phase,                      \* history: the first <organization> element is
                                  \* not yet read ("none"), open ("first_open")
                                  \* or closed ("first_closed")
  tier1_phase,                    \* history: org_phase when tier 1 was recorded
  in_first_org,                   \* history: an item was recorded while the first
                                  \* <organization> element was open
  decl_state,                     \* history: how <organizations> was declared
  open_ids,                       \* history: the identifier attribute of each
                                  \* open element, parallel to opened
  stage,                          \* position of upload_course; "direct" when
                                  \* parse_manifest is called on its own
  title,                          \* upload_course: the title field read so far
  zip_bytes,                      \* upload_course: the file field read so far
  steps_ok,                       \* history: the ingestion steps that succeeded
  courses,                        \* rows of table courses
  sco_rows,                       \* rows of table scos
  sco_iter,                       \* the entries of parsed.scos that upload_course
                                  \* has still to insert
  attempts,                       \* rows of table attempts; the id of a row is
                                  \* its position
  cmi_values,                     \* rows of table cmi_values:
                                  \* attempt id -> element -> value
  req,                            \* history: the last request to the API
  resp,                           \* the last response of the runtime API
  inflight                        \* the handlers suspended at an .await: a bag
                                  \* of positions, one copy per request

parserVars ==
  << resources, items, current_res_id, in_organizations, default_org_id,
     current_org_id, first_item_ref_in_default_org, first_item_ref_any >>

histVars == << org_phase, tier1_phase, in_first_org, decl_state, open_ids >>

serviceVars ==
  << stage, title, zip_bytes, steps_ok, courses, sco_rows, sco_iter, attempts,
     cmi_values, req, resp, inflight >>

vars == << pc, opened, ev, parserVars, iter_order, ret, histVars, serviceVars >>

NoEvent == [kind |-> "None", name |-> <<"">>, attrs |-> <<>>]
Pending == [tag |-> "Pending"]
Err(e) == [tag |-> "Err", err |-> e]
Ok(dl, s) == [tag |-> "Ok", default_launch |-> dl, scos |-> s]

\* an empty map element -> value
NoValues == [el \in {} |-> ""]

\* table cmi_values without rows
NoRows == [a \in 1..MaxAttempts |-> NoValues]

NoResponse == [status |-> "None"]

NoRequest == [op |-> "none"]

\* no request is being handled
NoneInFlight == EmptyBag

Init ==
  /\ pc = "open"
  /\ opened = <<>>
  /\ ev = NoEvent
  /\ resources = [k \in {} |-> DefaultInfo]
  /\ items = <<>>
  /\ current_res_id = None
  /\ in_organizations = FALSE
  /\ default_org_id = None
  /\ current_org_id = None
  /\ first_item_ref_in_default_org = None
  /\ first_item_ref_any = None
  /\ iter_order = <<>>
  /\ ret = Pending
  /\ org_phase = "none"
  /\ tier1_phase = "none"
  /\ in_first_org = FALSE
  /\ decl_state = "none"
  /\ open_ids = <<>>
  /\ stage = "direct"
  /\ title = None
  /\ zip_bytes = None
  /\ steps_ok = {}
  /\ courses = <<>>
  /\ sco_rows = <<>>
  /\ sco_iter = <<>>
  /\ attempts = <<>>
  /\ cmi_values = NoRows
  /\ req = NoRequest
  /\ resp = NoResponse
  /\ inflight = NoneInFlight

\* ------------------------------------------------------------------------
\* The match arms of the event loop
\* ------------------------------------------------------------------------
\* if let (Some(id), Some(iref)) = (identifier, identifierref)
ItemHasBoth(e) ==
  IsSome(get_attr(e, "identifier")) /\ IsSome(get_attr(e, "identifierref"))

\* the arm of the event loop that sees tag name nm in an event of this kind
HandledAs(kind, nm) ==
  IF kind = "Start" /\ nm \in {"organizations", "organization", "item", "resource", "file"}
    THEN nm
  ELSE IF kind = "Empty" /\ nm \in {"resource", "file"} THEN nm
  ELSE IF kind = "End" /\ nm \in {"organization", "organizations", "resource"} THEN nm
  ELSE "_"

Arm(e) == HandledAs(e.kind, local_name(e.name))

\* mutant: any organization counts as the default one
is_default_org_any(def, cur) == IsSome(cur)

is_default_org(def, cur) ==
  IF IsSome(def) /\ IsSome(cur) THEN def = cur
  ELSE IF def = None /\ IsSome(cur) THEN TRUE
  ELSE FALSE

\* mutant: the last reference seen wins
KeepLast(slot, iref) == Some(iref)

\* if first_item_ref_any.is_none() { first_item_ref_any = Some(iref) }
KeepFirst(slot, iref) == IF slot = None THEN Some(iref) ELSE slot

ItemTuple(e, org) ==
  [ identifier |-> get_attr(e, "identifier")[1],
    identifierref |-> get_attr(e, "identifierref")[1],
    parameters |-> get_attr(e, "parameters"),
    org |-> org ]

OnItem(e) ==
  IF ItemHasBoth(e)
    THEN LET iref == get_attr(e, "identifierref")[1]
             org_for_item == current_org_id
             in_default == is_default_org(default_org_id, org_for_item)
         IN /\ first_item_ref_any' = KeepFirst(first_item_ref_any, iref)
            /\ first_item_ref_in_default_org' =
                 IF in_default
                   THEN KeepFirst(first_item_ref_in_default_org, iref)
                   ELSE first_item_ref_in_default_org
            /\ tier1_phase' =
                 IF in_default /\ first_item_ref_in_default_org = None
                   THEN org_phase ELSE tier1_phase
            /\ items' = Append(items, ItemTuple(e, org_for_item))
            /\ in_first_org' = (in_first_org \/ org_phase = "first_open")
    ELSE UNCHANGED << first_item_ref_any, first_item_ref_in_default_org,
                      tier1_phase, in_first_org, items >>

\* mutant: a later tag replaces the record instead of merging into it
ReplaceResource(info, e) ==
  [ href |-> get_attr(e, "href"),
    files |-> <<>>,
    scormtype |-> get_attr(e, "scormtype") ]

\* the merge of one <resource> tag into the record held for its identifier
MergeResource(info, e) ==
  LET h == get_attr(e, "href")
      st == OrElse(get_attr(e, "scormtype"), get_ns_attr(e, "adlcp", "scormtype"))
  IN [ href |-> IF IsSome(h) THEN h ELSE info.href,
       files |-> info.files,
       scormtype |-> IF IsSome(st) THEN st ELSE info.scormtype ]

\* resources after a <resource> tag, in either form
ResourcesAfterTag(res, e) ==
  LET id == get_attr(e, "identifier") IN
  IF IsSome(id) THEN Insert(res, id[1], MergeResource(InfoOrDefault(res, id[1]), e))
  ELSE res

\* current_res_id after a <resource> start tag
OpenedResource(cur, e) ==
  IF IsSome(get_attr(e, "identifier")) THEN get_attr(e, "identifier") ELSE cur

\* a <file> tag pushes its href when a resource is open and the href is present
FilePushes(cur, e) == IsSome(cur) /\ IsSome(get_attr(e, "href"))

\* resources.entry(res_id).or_default().files.push(href)
ResourcesAfterFile(res, cur, e) ==
  IF FilePushes(cur, e)
    THEN LET info == InfoOrDefault(res, cur[1]) IN
         Insert(res, cur[1], [info EXCEPT !.files = Append(@, get_attr(e, "href")[1])])
    ELSE res

\* the bounds of the model on what one more tag may grow
WithinBounds(e) ==
  /\ (local_name(e.name) = "item" /\ e.kind = "Start" /\ ItemHasBoth(e))
       => Len(items) < MaxItems
  /\ (local_name(e.name) = "file" /\ FilePushes(current_res_id, e))
       => Len(InfoOrDefault(resources, current_res_id[1]).files) < MaxFiles

\* the history records the events of a run when log is set
Logged(log, e) == IF log THEN e ELSE NoEvent

\* track: the history also records the identifier of each open element
ReadStartTracked(events, log, track) ==
  /\ pc = "reading"
  /\ Len(opened) < MaxDepth
  /\ \E e \in events :
       /\ WithinBounds(e)
       /\ ev' = Logged(log, e)
       /\ opened' = Append(opened, e.name)
       /\ LET arm == Arm(e) IN
          /\ in_organizations' = IF arm = "organizations" THEN TRUE ELSE in_organizations
          /\ default_org_id' =
               IF arm = "organizations" THEN get_attr(e, "default") ELSE default_org_id
          /\ decl_state' =
               IF arm = "organizations"
                 THEN (IF decl_state = "none" /\ items = <<>> THEN "clean" ELSE "late")
                 ELSE decl_state
          /\ current_org_id' =
               IF arm = "organization" THEN get_attr(e, "identifier") ELSE current_org_id
          /\ org_phase' =
               IF arm = "organization" /\ org_phase = "none"
                 THEN "first_open" ELSE org_phase
          /\ IF arm = "item" THEN OnItem(e)
             ELSE UNCHANGED << first_item_ref_any, first_item_ref_in_default_org,
                               tier1_phase, in_first_org, items >>
          /\ resources' =
               IF arm = "resource" THEN ResourcesAfterTag(resources, e)
               ELSE IF arm = "file" THEN ResourcesAfterFile(resources, current_res_id, e)
               ELSE resources
          /\ current_res_id' =
               IF arm = "resource" THEN OpenedResource(current_res_id, e)
               ELSE current_res_id
       /\ open_ids' = IF track THEN Append(open_ids, get_attr(e, "identifier"))
                               ELSE open_ids
  /\ UNCHANGED << pc, iter_order, ret, serviceVars >>

ReadStart(events, log) == ReadStartTracked(events, log, FALSE)

ReadEmpty(events, log) ==
  /\ pc = "reading"
  /\ \E e \in events :
       /\ WithinBounds(e)
       /\ ev' = Logged(log, e)
       /\ LET arm == Arm(e) IN
          resources' =
            IF arm = "resource" THEN ResourcesAfterTag(resources, e)
            ELSE IF arm = "file" THEN ResourcesAfterFile(resources, current_res_id, e)
            ELSE resources
  /\ UNCHANGED << pc, opened, items, current_res_id, in_organizations, default_org_id,
                  current_org_id, first_item_ref_in_default_org, first_item_ref_any,
                  iter_order, ret, histVars, serviceVars >>

\* how many of the open elements are <organization> elements
OpenOrganizations(stack) ==
  Cardinality({ i \in 1..Len(stack) : local_name(stack[i]) = "organization" })

\* the reader accepts an end tag only for the innermost open element
ReadEndTracked(log, track) ==
  /\ pc = "reading"
  /\ opened # <<>>
  /\ LET e == [kind |-> "End", name |-> opened[Len(opened)], attrs |-> <<>>]
         arm == Arm(e)
     IN /\ ev' = Logged(log, e)
        /\ opened' = SubSeq(opened, 1, Len(opened) - 1)
        /\ current_org_id' = IF arm = "organization" THEN None ELSE current_org_id
        /\ in_organizations' = IF arm = "organizations" THEN FALSE ELSE in_organizations
        /\ current_res_id' = IF arm = "resource" THEN None ELSE current_res_id
        /\ org_phase' =
             IF arm = "organization" /\ org_phase = "first_open"
                  /\ OpenOrganizations(opened) = 1
               THEN "first_closed" ELSE org_phase
        /\ open_ids' = IF track THEN SubSeq(open_ids, 1, Len(open_ids) - 1)
                                ELSE open_ids
  /\ UNCHANGED << pc, resources, items, default_org_id, first_item_ref_in_default_org,
                  first_item_ref_any, iter_order, ret, tier1_phase, in_first_org,
                  decl_state,
                  serviceVars >>

ReadEnd(log) == ReadEndTracked(log, FALSE)

\* text, comments, declarations: the catch-all arm of the loop
ReadText(log) ==
  /\ pc = "reading"
  /\ ev' = Logged(log, [kind |-> "Text", name |-> <<"">>, attrs |-> <<>>])
  /\ UNCHANGED << pc, opened, parserVars, iter_order, ret, histVars, serviceVars >>

\* the reader reports malformed XML
ReadErr ==
  /\ pc = "reading"
  /\ ev' = ev
  /\ pc' = "failed"
  /\ ret' = Err("Parse")
  /\ UNCHANGED << opened, parserVars, iter_order, histVars, serviceVars >>

\* ------------------------------------------------------------------------
\* After the loop: choose the default item, resolve it, build the SCO list
\* ------------------------------------------------------------------------
\* first_item_ref_in_default_org.or(first_item_ref_any).or_else(first_resource_href)
ChosenItemRef(t1, any, res, order) ==
  OrElse(OrElse(t1, any), first_resource_href(res, order))

\* mutant: the candidate itself is the launch path
DefaultLaunchUnresolved(res, chosen, order) == Some(chosen)

\* resolve_launch_href(chosen).or_else(first_resource_href)
DefaultLaunch(res, chosen, order) ==
  OrElse(resolve_launch_href(res, chosen), first_resource_href(res, order))

\* one element of the filter_map over items
ScoEntry(it, res) ==
  LET href == resolve_launch_href(res, it.identifierref) IN
  IF IsSome(href)
    THEN << [identifier |-> it.identifier, href |-> href[1], parameters |-> it.parameters] >>
    ELSE <<>>

\* mutant: the list is built back to front
RECURSIVE BuildScosReversed(_, _)
BuildScosReversed(its, res) ==
  IF its = <<>> THEN <<>>
  ELSE BuildScosReversed(Tail(its), res) \o ScoEntry(Head(its), res)

RECURSIVE BuildScos(_, _)
BuildScos(its, res) ==
  IF its = <<>> THEN <<>>
  ELSE ScoEntry(Head(its), res) \o BuildScos(Tail(its), res)

\* mutant: an unresolved tier-1 candidate is retried against tier 2
ParseResultRetry(t1, any, its, res, order) ==
  LET chosen == ChosenItemRef(t1, any, res, order) IN
  IF chosen = None THEN Err("Parse")
  ELSE LET retry == IF IsSome(any) THEN resolve_launch_href(res, any[1]) ELSE None
           dl == OrElse(OrElse(resolve_launch_href(res, chosen[1]), retry),
                        first_resource_href(res, order))
       IN IF dl = None THEN Err("Parse")
          ELSE Ok(dl[1], BuildScos(its, res))

\* mutant: an unresolved candidate fails the parse
ParseResultStrict(t1, any, its, res, order) ==
  LET chosen == ChosenItemRef(t1, any, res, order) IN
  IF chosen = None THEN Err("Parse")
  ELSE LET dl == resolve_launch_href(res, chosen[1]) IN
       IF dl = None THEN Err("Parse")
       ELSE Ok(dl[1], BuildScos(its, res))

\* what parse_manifest returns once the reader is at Eof, for one iteration
\* order of the resource table
ParseResult(t1, any, its, res, order) ==
  LET chosen == ChosenItemRef(t1, any, res, order) IN
  IF chosen = None THEN Err("Parse")
  ELSE LET dl == DefaultLaunch(res, chosen[1], order) IN
       IF dl = None THEN Err("Parse")
       ELSE Ok(dl[1], BuildScos(its, res))

\* fs::read_to_string(path)
OpenManifest ==
  /\ pc = "open"
  /\ \E readable \in BOOLEAN :
       IF readable
         THEN pc' = "reading" /\ ret' = ret
         ELSE pc' = "failed" /\ ret' = Err("Missing")
  /\ UNCHANGED << opened, ev, parserVars, iter_order, histVars, serviceVars >>

\* Event::Eof: leave the loop and produce the result; the reader returns Eof
\* at the end of the input, also when elements are still open
ReadEof ==
  /\ pc = "reading"
  /\ ev' = ev
  /\ \E order \in IterOrders(resources) :
       /\ iter_order' = order
       /\ ret' = ParseResult(first_item_ref_in_default_org, first_item_ref_any,
                             items, resources, order)
  /\ pc' = "done"
  /\ UNCHANGED << opened, parserVars, histVars, serviceVars >>

\* parse_manifest on the manifests of the organization tier
NextOrg ==
  \/ OpenManifest
  \/ ReadStart(OrgStartEvents, FALSE)
  \/ ReadEmpty(OrgEmptyEvents, FALSE)
  \/ ReadEnd(FALSE)
  \/ ReadText(FALSE)
  \/ ReadErr
  \/ ReadEof

SpecOrg == Init /\ [][NextOrg]_vars

\* parse_manifest on the manifests of the item tier
NextItem ==
  \/ OpenManifest
  \/ ReadStart(ItemStartEvents, TRUE)
  \/ ReadEmpty(ItemEmptyEvents, TRUE)
  \/ ReadEnd(TRUE)
  \/ ReadText(TRUE)
  \/ ReadErr
  \/ ReadEof

SpecItem == Init /\ [][NextItem]_vars

\* parse_manifest on the manifests of the resource tier
NextRes ==
  \/ OpenManifest
  \/ ReadStart(ResStartEvents, FALSE)
  \/ ReadEmpty(ResEmptyEvents, FALSE)
  \/ ReadEnd(FALSE)
  \/ ReadText(FALSE)
  \/ ReadErr
  \/ ReadEof

SpecRes == Init /\ [][NextRes]_vars

\* parse_manifest on the manifests of the fallback tier
NextTier ==
  \/ OpenManifest
  \/ ReadStart(TierStartEvents, FALSE)
  \/ ReadEmpty(TierEmptyEvents, FALSE)
  \/ ReadEnd(FALSE)
  \/ ReadText(FALSE)
  \/ ReadErr
  \/ ReadEof

SpecTier == Init /\ [][NextTier]_vars

\* parse_manifest on the manifests of the merge tier
NextMerge ==
  \/ OpenManifest
  \/ ReadStart(MergeStartEvents, TRUE)
  \/ ReadEmpty(MergeEmptyEvents, TRUE)
  \/ ReadEnd(TRUE)
  \/ ReadText(TRUE)
  \/ ReadErr
  \/ ReadEof

SpecMerge == Init /\ [][NextMerge]_vars

\* parse_manifest on the manifests of the namespace tier
NextNs ==
  \/ OpenManifest
  \/ ReadStart(NsStartEvents, TRUE)
  \/ ReadEmpty(NsEmptyEvents, TRUE)
  \/ ReadEnd(TRUE)
  \/ ReadText(TRUE)
  \/ ReadErr
  \/ ReadEof

SpecNs == Init /\ [][NextNs]_vars

\* parse_manifest on the manifests of the file tier, the history recording
\* the identifier of every open element
NextFile ==
  \/ OpenManifest
  \/ ReadStartTracked(FileStartEvents, TRUE, TRUE)
  \/ ReadEmpty(FileEmptyEvents, TRUE)
  \/ ReadEndTracked(TRUE, TRUE)
  \/ ReadText(TRUE)
  \/ ReadErr
  \/ ReadEof

SpecFile == Init /\ [][NextFile]_vars

\* parse_manifest on the manifests of the resolution tier
NextResolve ==
  \/ OpenManifest
  \/ ReadStart(ResolveStartEvents, FALSE)
  \/ ReadEmpty(ResolveEmptyEvents, FALSE)
  \/ ReadEnd(FALSE)
  \/ ReadText(FALSE)
  \/ ReadErr
  \/ ReadEof

SpecResolve == Init /\ [][NextResolve]_vars

\* parse_manifest on the manifests of the launch tier
NextLaunch ==
  \/ OpenManifest
  \/ ReadStart(LaunchStartEvents, FALSE)
  \/ ReadEmpty(LaunchEmptyEvents, FALSE)
  \/ ReadEnd(FALSE)
  \/ ReadText(FALSE)
  \/ ReadErr
  \/ ReadEof

SpecLaunch == Init /\ [][NextLaunch]_vars

\* ------------------------------------------------------------------------
\* Runtime element validator (src/src/runtime.rs)
\* ------------------------------------------------------------------------
\* A submitted value is the string text followed by ascii one-byte
\* characters and wide two-byte characters.
Text(s) == [text |-> s, ascii |-> 0, wide |-> 0]

Filled(n, w) == [text |-> "", ascii |-> n, wide |-> w]

\* String::len(): the length of the UTF-8 encoding in bytes
value_len(v) == Len(v.text) + v.ascii + 2 * v.wide

\* mutant: every element name is allowed
is_valid_element_any(el) == TRUE

is_valid_element_12(el) ==
  el \in { "cmi.core.lesson_status", "cmi.core.lesson_location", "cmi.core.score.raw",
           "cmi.suspend_data", "cmi.core.session_time", "cmi.core.exit" }

SuspendDataMax == 4096
OtherMax == 255

max_len(el) == IF el = "cmi.suspend_data" THEN SuspendDataMax ELSE OtherMax

normalize_lesson_status(v) ==
  IF v.ascii = 0 /\ v.wide = 0
       /\ v.text \in {"passed", "failed", "completed", "incomplete", "browsed",
                      "not attempted"}
    THEN Some(v.text)
    ELSE None

\* ------------------------------------------------------------------------
\* Runtime endpoints (src/src/routes.rs)
\* ------------------------------------------------------------------------
Elements ==
  { "cmi.core.lesson_status", "cmi.core.lesson_location", "cmi.core.score.raw",
    "cmi.suspend_data", "cmi.core.session_time", "cmi.core.exit",
    "cmi.comments", "cmi.core.lesson_mode" }

\* the values a player submits for an element
Submitted(el) ==
  IF el = "cmi.core.lesson_status"
    THEN { Text(t) : t \in {"passed", "failed", "completed", "incomplete", "browsed",
                             "not attempted", "not-attempted", "unknown"} }
  ELSE IF el = "cmi.suspend_data"
    THEN { Filled(SuspendDataMax, 0), Filled(SuspendDataMax + 1, 0),
           Filled(0, SuspendDataMax) }
  ELSE IF el = "cmi.core.lesson_location"
    THEN { Filled(OtherMax, 0), Filled(OtherMax + 1, 0), Filled(0, OtherMax) }
  ELSE IF el = "cmi.core.score.raw" THEN { Text("85") }
  ELSE IF el = "cmi.core.session_time" THEN { Text("00:10:00") }
  ELSE { Text("suspend") }

\* the JSON objects over the element names S
RECURSIVE Objects(_)
Objects(S) ==
  IF S = {} THEN { NoValues }
  ELSE LET el == CHOOSE x \in S : TRUE IN
       { [k \in DOMAIN f \cup {el} |-> IF k = el THEN v ELSE f[k]] :
           f \in Objects(S \ {el}), v \in Submitted(el) }

\* the commit bodies that use element names of els
Bodies(els) == UNION { Objects(S) : S \in SUBSET els }

\* the element names of the commits whose body the history records
LoggedElements ==
  { "cmi.core.lesson_status", "cmi.suspend_data", "cmi.core.score.raw", "cmi.comments" }

\* the pair passes the two continue checks of the loop
Passes(el, value) == is_valid_element_12(el) /\ value_len(value) <= max_len(el)

\* mutant: an unrecognized lesson status is dropped
v_final_strict(el, value) == value

\* the value written for a pair that passed the checks
v_final(el, value) ==
  IF el = "cmi.core.lesson_status"
    THEN LET n == normalize_lesson_status(value) IN
         Text(IF IsSome(n) THEN n[1] ELSE "incomplete")
    ELSE value

\* INSERT ... ON CONFLICT (attempt_id, element) DO UPDATE, for every pair
Upserted(rows, obj) ==
  LET written == { el \in DOMAIN obj : Passes(el, obj[el]) } IN
  [ el \in DOMAIN rows \cup written |->
      IF el \in written THEN v_final(el, obj[el]) ELSE rows[el] ]

\* mutant: a failed lesson status leaves the attempt in progress
IsTerminalNoFailed(rows) ==
  /\ "cmi.core.lesson_status" \in DOMAIN rows
  /\ rows["cmi.core.lesson_status"] \in { Text("completed"), Text("passed") }

\* matches!(status.as_str(), "completed" | "passed" | "failed")
IsTerminal(rows) ==
  /\ "cmi.core.lesson_status" \in DOMAIN rows
  /\ rows["cmi.core.lesson_status"] \in { Text("completed"), Text("passed"), Text("failed") }

\* Json(serde_json::json!({ "ok": true }))
OkResponse == [status |-> "200", ok |-> TRUE]

\* Ok(Json(row)): the response carries the row just inserted
OkJson(row) == [status |-> "200", body |-> row]

\* e400
BadRequest(msg) == [status |-> "400", message |-> msg]

\* e500: a statement or a step of the handler failed
ServerError == [status |-> "500"]

runtimeVars == << attempts, cmi_values, req, resp, inflight >>

uploadVars == << stage, title, zip_bytes, steps_ok, courses, sco_rows, sco_iter >>

manifestVars == << pc, opened, ev, parserVars, iter_order, ret, histVars >>

\* A step of the model runs one handler from one .await to the next: the
\* handlers of other requests run at every .await, no statement is part of a
\* transaction, and every statement may fail, after which the handler leaves
\* through .map_err(e500)?.

\* the row INSERTed by create_attempt
AttemptRow(course_id) == [course_id |-> course_id, status |-> "in_progress"]

\* mutant: the UPDATE puts a completed attempt back in progress
MarkToggled(rows, id) ==
  [ i \in 1..Len(rows) |->
      IF i = id
        THEN [rows[i] EXCEPT !.status = IF @ = "completed" THEN "in_progress"
                                                            ELSE "completed"]
        ELSE rows[i] ]

\* UPDATE attempts SET status='completed' WHERE id=$1: no row is changed
\* when the table holds no attempt of that id
MarkCompleted(rows, id) ==
  [ i \in 1..Len(rows) |->
      IF i = id THEN [rows[i] EXCEPT !.status = "completed"] ELSE rows[i] ]

\* the handlers suspended at an .await that run op
InFlight(op) == { r \in BagToSet(inflight) : r.op = op }

\* a handler has reached an .await with position r
Started(r) == inflight (+) SetToBag({r})

\* the handler at position r has left that position
Finished(r) == inflight (-) SetToBag({r})

\* the handler at position r has moved on to position after
Moved(r, after) == Finished(r) (+) SetToBag({after})

\* POST /api/attempts: SELECT * FROM courses WHERE id=$1
create_attempt_select(limit) ==
  /\ BagCardinality(inflight) < limit
  /\ Len(attempts) + BagCardinality([r \in InFlight("create_attempt") |-> CopiesIn(r, inflight)]) < MaxAttempts
  /\ \E course_id \in 1..(Len(courses) + 1), ok \in BOOLEAN :
       IF ~ok
         THEN resp' = ServerError /\ inflight' = inflight
       ELSE IF course_id > Len(courses)
         THEN resp' = BadRequest("course not found") /\ inflight' = inflight
       ELSE /\ resp' = resp
            /\ inflight' = Started([op |-> "create_attempt", pc |-> "insert",
                                    course_id |-> course_id])
  /\ req' = [op |-> "create_attempt", step |-> "select"]
  /\ UNCHANGED << attempts, cmi_values, uploadVars, manifestVars >>

\* POST /api/attempts: INSERT INTO attempts ... 'in_progress' RETURNING ...
create_attempt_insert ==
  /\ \E r \in InFlight("create_attempt"), ok \in BOOLEAN :
       /\ inflight' = Finished(r)
       /\ IF ok
            THEN /\ attempts' = Append(attempts, AttemptRow(r.course_id))
                 /\ resp' = OkJson([id |-> Len(attempts) + 1,
                                    course_id |-> r.course_id,
                                    status |-> "in_progress"])
            ELSE attempts' = attempts /\ resp' = ServerError
  /\ req' = [op |-> "create_attempt", step |-> "insert"]
  /\ UNCHANGED << cmi_values, uploadVars, manifestVars >>

\* the pairs of todo that pass the two continue checks of the loop
Passing(todo) == { el \in DOMAIN todo : Passes(el, todo[el]) }

\* the object without the pair of el
Without(obj, el) == [k \in DOMAIN obj \ {el} |-> obj[k]]

\* the object holding the pair of el only
Only(obj, el) == [k \in {el} |-> obj[k]]

\* history: the step of rt_commit just taken by the request at position r.
\* left holds the pairs the loop has not written, done tells that the
\* handler has returned
CommitStep(log, step, r, el, ok, done) ==
  IF log
    THEN [op |-> "commit", step |-> step, attempt |-> r.attempt, body |-> r.body,
          left |-> r.todo, el |-> el, ok |-> ok, done |-> done]
    ELSE [op |-> "commit", step |-> step]

\* POST /runtime/:attempt_id/commit: the body is read, the handler starts.
\* todo holds the pairs the loop has still to visit; body is history, the
\* object as submitted, kept when the history records the steps
commit_begin(ids, bodies, limit, log) ==
  /\ BagCardinality(inflight) < limit
  /\ \E a \in ids, obj \in bodies :
       LET r == [op |-> "commit", pc |-> "loop", attempt |-> a,
                 body |-> IF log THEN obj ELSE NoValues, todo |-> obj]
       IN /\ inflight' = Started(r)
          /\ req' = CommitStep(log, "begin", r, "", TRUE, FALSE)
  /\ UNCHANGED << attempts, cmi_values, resp, uploadVars, manifestVars >>

\* the loop up to its next INSERT ... ON CONFLICT DO UPDATE: the pairs that
\* fail a check are skipped, the pairs are taken in any order
commit_upsert(log) ==
  /\ \E r \in InFlight("commit") :
       /\ r.pc = "loop"
       /\ \E el \in Passing(r.todo), ok \in BOOLEAN :
            LET after == [r EXCEPT !.todo = Without(r.todo, el)]
            IN IF ok
                 THEN /\ cmi_values' =
                           [cmi_values EXCEPT ![r.attempt] = Upserted(@, Only(r.todo, el))]
                      /\ inflight' = Moved(r, after)
                      /\ resp' = resp
                      /\ req' = CommitStep(log, "insert", after, el, TRUE, FALSE)
                 ELSE /\ cmi_values' = cmi_values
                      /\ inflight' = Finished(r)
                      /\ resp' = ServerError
                      /\ req' = CommitStep(log, "insert", r, el, FALSE, TRUE)
  /\ UNCHANGED << attempts, uploadVars, manifestVars >>

\* after the loop: SELECT value FROM cmi_values WHERE ... 'cmi.core.lesson_status';
\* a status that is not terminal ends the handler
commit_select(log) ==
  /\ \E r \in InFlight("commit") :
       /\ r.pc = "loop"
       /\ Passing(r.todo) = {}
       /\ \E ok \in BOOLEAN :
            IF ~ok
              THEN /\ inflight' = Finished(r)
                   /\ resp' = ServerError
                   /\ req' = CommitStep(log, "select", r, "", FALSE, TRUE)
            ELSE IF IsTerminal(cmi_values[r.attempt])
              THEN /\ inflight' = Moved(r, [r EXCEPT !.pc = "update"])
                   /\ resp' = resp
                   /\ req' = CommitStep(log, "select", r, "", TRUE, FALSE)
            ELSE /\ inflight' = Finished(r)
                 /\ resp' = OkResponse
                 /\ req' = CommitStep(log, "select", r, "", TRUE, TRUE)
  /\ UNCHANGED << attempts, cmi_values, uploadVars, manifestVars >>

\* UPDATE attempts SET status='completed' ..., then the response
commit_update(log) ==
  /\ \E r \in InFlight("commit"), ok \in BOOLEAN :
       /\ r.pc = "update"
       /\ inflight' = Finished(r)
       /\ attempts' = IF ok THEN MarkCompleted(attempts, r.attempt) ELSE attempts
       /\ resp' = IF ok THEN OkResponse ELSE ServerError
       /\ req' = CommitStep(log, "update", r, "", ok, TRUE)
  /\ UNCHANGED << cmi_values, uploadVars, manifestVars >>

\* POST /runtime/:attempt_id/finish: one UPDATE, then the response
rt_finish(ids) ==
  /\ \E a \in ids, ok \in BOOLEAN :
       /\ attempts' = IF ok THEN MarkCompleted(attempts, a) ELSE attempts
       /\ resp' = IF ok THEN OkResponse ELSE ServerError
       /\ req' = [op |-> "finish", attempt |-> a]
  /\ UNCHANGED << cmi_values, inflight, uploadVars, manifestVars >>

\* a course has been ingested, no attempt exists yet
InitRuntime ==
  /\ pc = "idle"
  /\ opened = <<>>
  /\ ev = NoEvent
  /\ resources = [k \in {} |-> DefaultInfo]
  /\ items = <<>>
  /\ current_res_id = None
  /\ in_organizations = FALSE
  /\ default_org_id = None
  /\ current_org_id = None
  /\ first_item_ref_in_default_org = None
  /\ first_item_ref_any = None
  /\ iter_order = <<>>
  /\ ret = Pending
  /\ org_phase = "none"
  /\ tier1_phase = "none"
  /\ in_first_org = FALSE
  /\ decl_state = "none"
  /\ open_ids = <<>>
  /\ stage = "idle"
  /\ title = None
  /\ zip_bytes = None
  /\ steps_ok = {}
  /\ courses = << [title |-> "Untitled Course", launch_href |-> "a.html"] >>
  /\ sco_rows = <<>>
  /\ sco_iter = <<>>
  /\ attempts = <<>>
  /\ cmi_values = NoRows
  /\ req = NoRequest
  /\ resp = NoResponse
  /\ inflight = NoneInFlight

\* the attempt ids the requests of the model name
Tracked == {1}

\* one value of each element that passes the checks of the loop where the
\* element name does
Sample(el) ==
  IF el = "cmi.core.lesson_status" THEN Text("completed")
  ELSE IF el = "cmi.suspend_data" THEN Filled(SuspendDataMax, 0)
  ELSE IF el = "cmi.core.lesson_location" THEN Filled(OtherMax, 0)
  ELSE CHOOSE v \in Submitted(el) : TRUE

\* the commit bodies with one pair at most, over every element name
RuntimeBodies == { NoValues } \cup { [k \in {el} |-> Sample(el)] : el \in Elements }

\* the runtime API with up to MaxInFlight requests in flight at once, over
\* every element name
NextRuntime ==
  \/ create_attempt_select(MaxInFlight)
  \/ create_attempt_insert
  \/ commit_begin(Tracked, RuntimeBodies, MaxInFlight, FALSE)
  \/ commit_upsert(FALSE)
  \/ commit_select(FALSE)
  \/ commit_update(FALSE)
  \/ rt_finish(Tracked)

SpecRuntime == InitRuntime /\ [][NextRuntime]_vars

\* the commit bodies whose steps the history records: one pair of any
\* logged element, or suspend data mixed with a second pair
CommitBodies ==
  { b \in Bodies(LoggedElements) :
      \/ Cardinality(DOMAIN b) <= 1
      \/ /\ Cardinality(DOMAIN b) = 2
         /\ "cmi.suspend_data" \in DOMAIN b
         /\ "cmi.core.lesson_status" \notin DOMAIN b }

\* the runtime API with up to MaxInFlight requests in flight at once, the
\* history recording the steps of each commit
NextCommit ==
  \/ create_attempt_select(MaxInFlight)
  \/ create_attempt_insert
  \/ commit_begin(Tracked, CommitBodies, MaxInFlight, TRUE)
  \/ commit_upsert(TRUE)
  \/ commit_select(TRUE)
  \/ commit_update(TRUE)
  \/ rt_finish(Tracked)

SpecCommit == InitRuntime /\ [][NextCommit]_vars

\* the commit bodies of the requests in flight at once
ConcurrentBodies ==
  { b \in Bodies({"cmi.core.lesson_status"}) :
      "cmi.core.lesson_status" \in DOMAIN b
        => b["cmi.core.lesson_status"].text \in {"completed", "incomplete"} }

\* the runtime API with up to MaxInFlight requests in flight at once, the
\* commits naming one attempt
NextConcurrent ==
  \/ create_attempt_select(MaxInFlight)
  \/ create_attempt_insert
  \/ commit_begin(Tracked, ConcurrentBodies, MaxInFlight, TRUE)
  \/ commit_upsert(TRUE)
  \/ commit_select(TRUE)
  \/ commit_update(TRUE)
  \/ rt_finish(Tracked)

SpecConcurrent == InitRuntime /\ [][NextConcurrent]_vars

\* ------------------------------------------------------------------------
\* Ingestion (src/src/routes.rs, upload_course)
\* ------------------------------------------------------------------------
\* Manifests of the ingestion tier: items and self-closing resources.
UploadStartEvents == ItemTags("Start", ItemsBoth)

UploadEmptyEvents ==
  ResourceTags("Empty", { <<Some("R1"), Some("a.html"), None>>, <<Some("R2"), None, None>> })

\* the names of the multipart fields of a request; None is the end of the body
FieldNames == { None, Some("title"), Some("file"), Some("other") }

\* while let Some(field) = mp.next_field().await.map_err(e500)?: the next
\* field of the body, or its end, where title takes its default and the file
\* is required
next_field ==
  /\ stage = "fields"
  /\ \E field \in FieldNames, ok \in BOOLEAN :
       IF ~ok
         THEN stage' = "error" /\ resp' = ServerError
       ELSE IF field = None
         THEN IF IsSome(zip_bytes)
                THEN stage' = "extract" /\ resp' = resp
                ELSE stage' = "bad_request" /\ resp' = BadRequest("file is required")
       ELSE /\ stage' = IF field = Some("title") THEN "field_text"
                        ELSE IF field = Some("file") THEN "field_bytes"
                        ELSE "fields"
            /\ resp' = resp
  /\ req' = [op |-> "upload"]
  /\ UNCHANGED << title, zip_bytes, steps_ok, courses, sco_rows, sco_iter, attempts,
                  cmi_values, inflight, manifestVars >>

\* title = Some(field.text().await.map_err(e500)?)
field_text ==
  /\ stage = "field_text"
  /\ \E ok \in BOOLEAN :
       IF ok
         THEN title' = Some("Course") /\ stage' = "fields" /\ resp' = resp
         ELSE title' = title /\ stage' = "error" /\ resp' = ServerError
  /\ UNCHANGED << zip_bytes, steps_ok, courses, sco_rows, sco_iter, attempts,
                  cmi_values, req, inflight, manifestVars >>

\* zip_bytes = Some(field.bytes().await.map_err(e500)?.to_vec())
field_bytes ==
  /\ stage = "field_bytes"
  /\ \E ok \in BOOLEAN :
       IF ok
         THEN zip_bytes' = Some("zip") /\ stage' = "fields" /\ resp' = resp
         ELSE zip_bytes' = zip_bytes /\ stage' = "error" /\ resp' = ServerError
  /\ UNCHANGED << title, steps_ok, courses, sco_rows, sco_iter, attempts,
                  cmi_values, req, inflight, manifestVars >>

\* mutant: a failed extraction does not end the request
after_extract_ignored(ok) == "find"

\* manifest::extract_zip_to_dir(..).map_err(e500)?
after_extract(ok) == IF ok THEN "find" ELSE "error"

extract_zip_to_dir ==
  /\ stage = "extract"
  /\ \E ok \in BOOLEAN :
       /\ stage' = after_extract(ok)
       /\ steps_ok' = IF ok THEN steps_ok \cup {"extract"} ELSE steps_ok
       /\ resp' = IF after_extract(ok) = "error" THEN ServerError ELSE resp
  /\ UNCHANGED << title, zip_bytes, courses, sco_rows, sco_iter, attempts, cmi_values,
                  req, inflight, manifestVars >>

\* manifest::find_manifest(..), then the call of parse_manifest
find_manifest ==
  /\ stage = "find"
  /\ \E found \in BOOLEAN :
       IF found
         THEN /\ stage' = "parse" /\ pc' = "open"
              /\ steps_ok' = steps_ok \cup {"find"}
              /\ resp' = resp
         ELSE /\ stage' = "bad_request" /\ pc' = pc
              /\ steps_ok' = steps_ok
              /\ resp' = BadRequest("imsmanifest.xml not found")
  /\ UNCHANGED << title, zip_bytes, courses, sco_rows, sco_iter, attempts, cmi_values,
                  req, inflight, opened, ev, parserVars, iter_order, ret, histVars >>

\* the row inserted into scos for one entry of parsed.scos
ScoRow(sco) ==
  [ identifier |-> sco.identifier, launch_href |-> sco.href, parameters |-> sco.parameters ]

\* the row inserted into courses
CourseRow(t, parsed) ==
  [ title |-> IF IsSome(t) THEN t[1] ELSE "Untitled Course",
    launch_href |-> parsed.default_launch ]

\* the handler after the loop position iter: the next INSERT INTO scos or,
\* at the end of the loop, the response Ok(Json(course))
AfterInsert(iter) == IF iter = <<>> THEN "ok" ELSE "insert_sco"

\* parse_manifest has returned: map its error, or INSERT INTO courses
insert_course ==
  /\ stage = "parse"
  /\ pc \in {"done", "failed"}
  /\ IF ret.tag # "Ok"
       THEN /\ stage' = "bad_request"
            /\ resp' = BadRequest("failed to parse manifest")
            /\ UNCHANGED << courses, sco_iter, steps_ok >>
       ELSE /\ steps_ok' = steps_ok \cup {"parse"}
            /\ \E ok \in BOOLEAN :
                 IF ok
                   THEN /\ courses' = Append(courses, CourseRow(title, ret))
                        /\ sco_iter' = ret.scos
                        /\ stage' = AfterInsert(ret.scos)
                        /\ resp' = IF ret.scos = <<>>
                                     THEN OkJson(CourseRow(title, ret)) ELSE resp
                   ELSE /\ stage' = "error"
                        /\ resp' = ServerError
                        /\ UNCHANGED << courses, sco_iter >>
  /\ UNCHANGED << title, zip_bytes, sco_rows, attempts, cmi_values, req, inflight,
                  manifestVars >>

\* one iteration of the loop over parsed.scos: INSERT INTO scos
insert_sco ==
  /\ stage = "insert_sco"
  /\ \E ok \in BOOLEAN :
       IF ok
         THEN /\ sco_rows' = Append(sco_rows, ScoRow(Head(sco_iter)))
              /\ sco_iter' = Tail(sco_iter)
              /\ stage' = AfterInsert(Tail(sco_iter))
              /\ resp' = IF Tail(sco_iter) = <<>>
                           THEN OkJson(courses[Len(courses)]) ELSE resp
         ELSE /\ stage' = "error"
              /\ resp' = ServerError
              /\ UNCHANGED << sco_rows, sco_iter >>
  /\ UNCHANGED << title, zip_bytes, steps_ok, courses, attempts, cmi_values, req,
                  inflight, manifestVars >>

\* an upload request has arrived, the tables are empty
InitUpload ==
  /\ pc = "idle"
  /\ opened = <<>>
  /\ ev = NoEvent
  /\ resources = [k \in {} |-> DefaultInfo]
  /\ items = <<>>
  /\ current_res_id = None
  /\ in_organizations = FALSE
  /\ default_org_id = None
  /\ current_org_id = None
  /\ first_item_ref_in_default_org = None
  /\ first_item_ref_any = None
  /\ iter_order = <<>>
  /\ ret = Pending
  /\ org_phase = "none"
  /\ tier1_phase = "none"
  /\ in_first_org = FALSE
  /\ decl_state = "none"
  /\ open_ids = <<>>
  /\ stage = "fields"
  /\ title = None
  /\ zip_bytes = None
  /\ steps_ok = {}
  /\ courses = <<>>
  /\ sco_rows = <<>>
  /\ sco_iter = <<>>
  /\ attempts = <<>>
  /\ cmi_values = NoRows
  /\ req = NoRequest
  /\ resp = NoResponse
  /\ inflight = NoneInFlight

\* upload_course on the manifests of the ingestion tier, with create_attempt
\* requests handled between its steps
NextUpload ==
  \/ next_field
  \/ field_text
  \/ field_bytes
  \/ extract_zip_to_dir
  \/ find_manifest
  \/ OpenManifest
  \/ ReadStart(UploadStartEvents, FALSE)
  \/ ReadEmpty(UploadEmptyEvents, FALSE)
  \/ ReadEnd(FALSE)
  \/ ReadText(FALSE)
  \/ ReadErr
  \/ ReadEof
  \/ insert_course
  \/ insert_sco
  \/ create_attempt_select(MaxInFlight)
  \/ create_attempt_insert

SpecUpload == InitUpload /\ [][NextUpload]_vars

\* ------------------------------------------------------------------------
\* Vocabulary of the claims
\* ------------------------------------------------------------------------
\* the loop was left at Eof: the whole manifest has been read
AtEof == pc = "done"

Succeeded == AtEof /\ ret.tag = "Ok"

\* positions of the recorded items whose organization is org
ItemsOfOrg(org) == { i \in 1..Len(items) : items[i].org = org }

\* least element of a non-empty set of positions
Least(S) == CHOOSE i \in S : \A j \in S : i <= j

\* launch path of a recorded item, None when its resource is missing or
\* has neither href nor file
PathOfItem(i) == resolve_launch_href(resources, items[i].identifierref)

\* the only <organizations> start tag was read before any item was recorded
DeclaredBeforeItems == decl_state = "clean"

\* no <organizations> start tag carried a default attribute
NoDefaultDeclared == decl_state # "late" /\ default_org_id = None

\* ------------------------------------------------------------------------
\* C1
\* ------------------------------------------------------------------------
\* C1 as stated: when the manifest declares default organization X and the
\* first item recorded with organization X resolves, defaultLaunch is that
\* item's path, whatever items come earlier in the document.
C1_DefaultOrgItemWins_AsStated ==
  (AtEof /\ IsSome(default_org_id) /\ ItemsOfOrg(default_org_id) # {})
    => LET k == Least(ItemsOfOrg(default_org_id)) IN
       IsSome(PathOfItem(k))
         => (ret.tag = "Ok" /\ ret.default_launch = PathOfItem(k)[1])

\* C1 amended: the same, for manifests whose only <organizations> start tag
\* comes before every recorded item.
C1_DefaultOrgItemWins ==
  (AtEof /\ DeclaredBeforeItems /\ IsSome(default_org_id)
     /\ ItemsOfOrg(default_org_id) # {})
    => LET k == Least(ItemsOfOrg(default_org_id)) IN
       IsSome(PathOfItem(k))
         => (ret.tag = "Ok" /\ ret.default_launch = PathOfItem(k)[1])

\* an item of another organization comes first, resolves to another path,
\* and the default organization's item still decides defaultLaunch
C1_Witness ==
  /\ Succeeded /\ DeclaredBeforeItems
  /\ default_org_id = Some("A")
  /\ Len(items) = 2
  /\ items[1].org = Some("B") /\ items[2].org = Some("A")
  /\ IsSome(PathOfItem(1)) /\ IsSome(PathOfItem(2))
  /\ PathOfItem(1) # PathOfItem(2)
  /\ ret.default_launch = PathOfItem(2)[1]

\* ------------------------------------------------------------------------
\* C2
\* ------------------------------------------------------------------------
\* C2: with no default declared, the tier-1 candidate is an item read while
\* the first organization encountered was open, never an item of a later
\* organization.
C2_FirstOrganizationWins ==
  (AtEof /\ NoDefaultDeclared /\ IsSome(first_item_ref_in_default_org))
    => tier1_phase = "first_open"

\* ------------------------------------------------------------------------
\* C3
\* ------------------------------------------------------------------------
\* the default organization is known: a default was declared, or none was
\* and the first organization encountered is the default one
DefaultOrgKnown == IsSome(default_org_id) \/ NoDefaultDeclared

\* no item was recorded inside the default organization: the organization
\* named by the declared default, or the first organization encountered when
\* no default was declared
NoItemInDefaultOrg ==
  IF IsSome(default_org_id)
    THEN ItemsOfOrg(default_org_id) = {}
    ELSE ~in_first_org

\* C3: when no item was recorded inside the default organization and an
\* item was recorded, the candidate is the first item recorded anywhere and
\* defaultLaunch is its path when it resolves.
C3_FirstItemAnywhere ==
  (AtEof /\ DefaultOrgKnown /\ NoItemInDefaultOrg /\ items # <<>>)
    => /\ ChosenItemRef(first_item_ref_in_default_org, first_item_ref_any,
                        resources, iter_order) = Some(items[1].identifierref)
       /\ IsSome(PathOfItem(1))
            => (ret.tag = "Ok" /\ ret.default_launch = PathOfItem(1)[1])

\* ------------------------------------------------------------------------
\* C4
\* ------------------------------------------------------------------------
\* the item reference chosen by tier 1 or, failing that, tier 2
ItemCandidate == OrElse(first_item_ref_in_default_org, first_item_ref_any)

\* the resource has a direct href or at least one file
Usable(id) == id \in DOMAIN resources /\ IsSome(resolve_launch_href(resources, id))

\* positions of the usable resources in the table's iteration order
UsableInOrder == { k \in 1..Len(iter_order) : Usable(iter_order[k]) }

\* C4: when the candidate item reference of tier 1 or tier 2 does not
\* resolve, defaultLaunch is the path of the first usable resource the table
\* yields (tier 3), and the parse fails when there is none; the tier-2
\* candidate is not tried after an unresolved tier-1 candidate.
C4_UnresolvedCandidateFallsToTier3 ==
  (AtEof /\ IsSome(ItemCandidate)
     /\ resolve_launch_href(resources, ItemCandidate[1]) = None)
    => IF UsableInOrder = {} THEN ret.tag = "Err"
       ELSE /\ ret.tag = "Ok"
            /\ ret.default_launch =
                 resolve_launch_href(resources, iter_order[Least(UsableInOrder)])[1]

\* tier 1 names a resource without href, tier 2 names one that resolves,
\* and defaultLaunch is the path of a third resource
C4_Witness ==
  /\ Succeeded
  /\ IsSome(first_item_ref_in_default_org) /\ IsSome(first_item_ref_any)
  /\ first_item_ref_in_default_org[1] \in DOMAIN resources
  /\ resolve_launch_href(resources, first_item_ref_in_default_org[1]) = None
  /\ IsSome(resolve_launch_href(resources, first_item_ref_any[1]))
  /\ ret.default_launch # resolve_launch_href(resources, first_item_ref_any[1])[1]
  /\ \E id \in DOMAIN resources :
       Usable(id) /\ ret.default_launch = resolve_launch_href(resources, id)[1]

\* ------------------------------------------------------------------------
\* C5
\* ------------------------------------------------------------------------
\* C5: on success defaultLaunch is a non-empty string.
C5_DefaultLaunchNonEmpty == Succeeded => ret.default_launch # ""

\* ------------------------------------------------------------------------
\* C6
\* ------------------------------------------------------------------------
\* C6: once the manifest is read to its end without a reader error, elements
\* left open or not, the parse fails, with
\* the Parse error, exactly when no resource of the table has a direct href
\* or a file.
C6_FailsIffNoUsableResource ==
  AtEof => /\ ret.tag \in {"Ok", "Err"}
           /\ ret.tag = "Err" <=> (\A id \in DOMAIN resources : ~Usable(id))
           /\ ret.tag = "Err" => ret.err = "Parse"

\* the only item names a missing resource, the parse succeeds all the same,
\* on the file of a resource without href, and scos is empty
C6_Witness ==
  /\ Succeeded
  /\ Len(items) = 1
  /\ items[1].identifierref \notin DOMAIN resources
  /\ ret.scos = <<>>
  /\ \E id \in DOMAIN resources :
       /\ resources[id].href = None
       /\ resources[id].files # <<>>
       /\ ret.default_launch = resources[id].files[1]

\* ------------------------------------------------------------------------
\* C7
\* ------------------------------------------------------------------------
\* positions of the recorded items whose resource resolves
Resolving == { i \in 1..Len(items) : IsSome(PathOfItem(i)) }

\* position in scos of the resolving item at position i
Rank(i) == Cardinality({ j \in Resolving : j <= i })

\* C7: scos holds exactly one entry (identifier, resolved href, parameters)
\* per recorded item whose resource resolves, and nothing else, in the
\* source order of the items.
C7_ScosAreTheResolvingItems ==
  Succeeded
    => /\ Len(ret.scos) = Cardinality(Resolving)
       /\ \A i \in Resolving :
            ret.scos[Rank(i)] = [ identifier |-> items[i].identifier,
                                  href |-> PathOfItem(i)[1],
                                  parameters |-> items[i].parameters ]

\* two items resolve, the first through a file of a resource without href,
\* and scos lists them in source order
C7_Witness ==
  /\ Succeeded
  /\ Len(items) = 2 /\ Len(ret.scos) = 2
  /\ resources[items[1].identifierref].href = None
  /\ ret.scos[1].identifier = items[1].identifier
  /\ ret.scos[1].href = resources[items[1].identifierref].files[1]
  /\ ret.scos[2].identifier = items[2].identifier
  /\ ret.scos[1] # ret.scos[2]

\* ------------------------------------------------------------------------
\* C8
\* ------------------------------------------------------------------------
\* a step of the event loop that reads one tag, text or comment
ReadStep == pc = "reading" /\ pc' = "reading"

IsTag(e, nm) == e.kind \in {"Start", "Empty"} /\ local_name(e.name) = nm

\* C8: every <item> tag read, open or self-closing, is recorded exactly when
\* it carries both identifier and identifierref: it is appended to items and
\* counts for the first-item candidates.
C8_ItemRecordedIffBothAttributes ==
  [][ (ReadStep /\ IsTag(ev', "item"))
        => IF ItemHasBoth(ev')
             THEN /\ Len(items') = Len(items) + 1
                  /\ items'[Len(items')].identifier = get_attr(ev', "identifier")[1]
                  /\ items'[Len(items')].identifierref = get_attr(ev', "identifierref")[1]
                  /\ IsSome(first_item_ref_any')
             ELSE items' = items ]_vars

\* ------------------------------------------------------------------------
\* C9
\* ------------------------------------------------------------------------
IsPrefix(a, b) == Len(a) <= Len(b) /\ SubSeq(b, 1, Len(a)) = a

\* C9: repeated <resource> tags of one identifier merge into one record. A
\* tag with an href attribute sets the href, a tag without one leaves the
\* earlier href, and no tag touches the files collected so far; files are
\* only ever appended, so the list is the concatenation in document order.
C9_MergedResourceRecord ==
  [][ ReadStep
        => /\ \A id \in DOMAIN resources :
                /\ id \in DOMAIN resources'
                /\ IsPrefix(resources[id].files, resources'[id].files)
           /\ (IsTag(ev', "resource") /\ IsSome(get_attr(ev', "identifier")))
                => LET id == get_attr(ev', "identifier")[1]
                       old == InfoOrDefault(resources, id)
                       h == get_attr(ev', "href")
                   IN /\ DOMAIN resources' = DOMAIN resources \cup {id}
                      /\ resources'[id].href = IF IsSome(h) THEN h ELSE old.href
                      /\ resources'[id].files = old.files
                      /\ \A k \in DOMAIN resources \ {id} : resources'[k] = resources[k]
           /\ (IsTag(ev', "file") /\ IsSome(current_res_id)
                 /\ IsSome(get_attr(ev', "href")))
                => LET id == current_res_id[1]
                       old == InfoOrDefault(resources, id)
                   IN /\ resources'[id].files = Append(old.files, get_attr(ev', "href")[1])
                      /\ resources'[id].href = old.href
                      /\ \A k \in DOMAIN resources \ {id} : resources'[k] = resources[k] ]_vars

\* a later block of R1 carries href a.html and the record keeps the file
\* f.js collected by an earlier block
C9_Witness ==
  /\ pc = "reading"
  /\ IsTag(ev, "resource")
  /\ get_attr(ev, "identifier") = Some("R1")
  /\ get_attr(ev, "href") = Some("a.html")
  /\ "R1" \in DOMAIN resources
  /\ resources["R1"].href = Some("a.html")
  /\ resources["R1"].files = <<"f.js">>

\* ------------------------------------------------------------------------
\* C10
\* ------------------------------------------------------------------------
\* C10: the result does not depend on the order in which the resource table
\* is iterated: every run on the same manifest returns the same value.
C10_Deterministic ==
  AtEof => \A order \in IterOrders(resources) :
             ParseResult(first_item_ref_in_default_org, first_item_ref_any,
                         items, resources, order) = ret

\* ------------------------------------------------------------------------
\* C11
\* ------------------------------------------------------------------------
\* the attribute names parse_manifest asks for
AttrKeys == {"default", "identifier", "identifierref", "parameters", "href", "scormtype"}

RenamingPrefixes == {None, Some("x")}

\* the renamings of a tag: same local names, other prefixes
Renamings(e) == { Prefixed(e, pe, pa) : pe \in RenamingPrefixes, pa \in RenamingPrefixes }

\* C11: names are compared by local part only. Whatever prefix the element
\* name and the attribute names of a tag carry, on start, self-closing and
\* end tags, the event loop takes the same arm, reads the same attribute
\* values and moves the parser to the same state, so the result of
\* parse_manifest does not depend on the prefixes.
C11_PrefixesIgnored ==
  [][ (ReadStep /\ ev'.kind \in {"Start", "Empty", "End"})
        => \A r \in Renamings(ev') :
             /\ Arm(r) = Arm(ev')
             /\ \A k \in AttrKeys : get_attr(r, k) = get_attr(ev', k)
             /\ ev'.kind \in {"Start", "Empty"}
                  => resources' =
                       IF Arm(r) = "resource" THEN ResourcesAfterTag(resources, r)
                       ELSE IF Arm(r) = "file"
                         THEN ResourcesAfterFile(resources, current_res_id, r)
                       ELSE resources
             /\ ev'.kind = "Start"
                  => /\ current_res_id' =
                          IF Arm(r) = "resource" THEN OpenedResource(current_res_id, r)
                          ELSE current_res_id
                     /\ current_org_id' =
                          IF Arm(r) = "organization" THEN get_attr(r, "identifier")
                          ELSE current_org_id
                     /\ items' =
                          IF Arm(r) = "item" /\ ItemHasBoth(r)
                            THEN Append(items, ItemTuple(r, current_org_id))
                            ELSE items
             /\ ev'.kind = "End"
                  => /\ current_res_id' = IF Arm(r) = "resource" THEN None ELSE current_res_id
                     /\ current_org_id' =
                          IF Arm(r) = "organization" THEN None ELSE current_org_id ]_vars

\* a manifest whose organization, item and resource tags all carry the ims
\* prefix on the element and attribute names parses to the item's path
C11_Witness ==
  /\ Succeeded
  /\ Len(items) = 1
  /\ items[1] = [identifier |-> "I1", identifierref |-> "R1",
                  parameters |-> None, org |-> Some("A")]
  /\ ev.kind = "End" /\ ev.name = <<"ims", "resource">>
  /\ resources["R1"].scormtype = Some("sco")
  /\ resources["R1"].files = <<"f.js">>
  /\ ret.default_launch = "f.js"
  /\ ret.scos = << [identifier |-> "I1", href |-> "f.js", parameters |-> None] >>

\* ------------------------------------------------------------------------
\* C12
\* ------------------------------------------------------------------------
\* the resource references a manifest of the model can name
ResourceRefs == {"R1", "R2", "R3"}

\* C12: a reference resolves to the direct href of the resource when it has
\* one, otherwise to its first nested file href, otherwise (or when the
\* resource is missing) to nothing; the first file is the first in document
\* order: a file read later never replaces it.
C12_ResolveHrefThenFirstFile ==
  [][ \A id \in ResourceRefs :
        LET got == resolve_launch_href(resources', id) IN
        IF id \notin DOMAIN resources' THEN got = None
        ELSE LET r == resources'[id] IN
             /\ IsSome(r.href) => got = r.href
             /\ (r.href = None /\ r.files = <<>>) => got = None
             /\ (r.href = None /\ r.files # <<>>)
                  => /\ got = Some(r.files[1])
                     /\ (id \in DOMAIN resources /\ resources[id].files # <<>>)
                          => r.files[1] = resources[id].files[1] ]_vars

\* resource R1 has no direct href and the nested file index.html, and the
\* item that names it launches index.html
C12_Witness ==
  /\ Succeeded
  /\ "R1" \in DOMAIN resources
  /\ resources["R1"].href = None
  /\ resources["R1"].files = <<"index.html">>
  /\ resolve_launch_href(resources, "R1") = Some("index.html")
  /\ Len(items) = 1 /\ items[1].identifierref = "R1"
  /\ ret.default_launch = "index.html"
  /\ ret.scos = << [identifier |-> items[1].identifier, href |-> "index.html",
                    parameters |-> items[1].parameters] >>

\* ------------------------------------------------------------------------
\* Vocabulary of the runtime claims
\* ------------------------------------------------------------------------
LessonStatus == "cmi.core.lesson_status"

\* the six allow-listed CMI 1.2 elements: lesson status, lesson location,
\* raw score, suspend data, session time, exit
AllowList ==
  { "cmi.core.lesson_status", "cmi.core.lesson_location", "cmi.core.score.raw",
    "cmi.suspend_data", "cmi.core.session_time", "cmi.core.exit" }

\* the step just taken was a step of a commit
Committed == req.op = "commit"

\* the step just taken wrote the pair of req.el
Wrote(r) == r.op = "commit" /\ r.step = "insert" /\ r.ok

\* the step just taken ended the loop over the pairs of a commit
LoopEnded(r) == r.op = "commit" /\ r.step = "select" /\ r.ok

\* the step just taken returned the response of a commit, every statement
\* having succeeded
Returned(r) == r.op = "commit" /\ r.done /\ r.ok

\* the length of a value in characters
value_chars(v) == Len(v.text) + v.ascii + v.wide

\* the maximum length of an element: 4096 for suspend data, 255 otherwise
MaxOf(el) == IF el = "cmi.suspend_data" THEN SuspendDataMax ELSE OtherMax

\* the rows of attempt a hold the same for el before and after the step
RowUnchanged(a, el) ==
  /\ el \in DOMAIN cmi_values'[a] <=> el \in DOMAIN cmi_values[a]
  /\ el \in DOMAIN cmi_values[a] => cmi_values'[a][el] = cmi_values[a][el]

\* the status of attempt a, "none" while table attempts has no such row
StatusOf(rows, a) == IF a \in 1..Len(rows) THEN rows[a].status ELSE "none"

\* ------------------------------------------------------------------------
\* C13
\* ------------------------------------------------------------------------
\* C13: after any sequence of commits, every element name among the
\* persisted tracking values is one of the six allow-listed elements.
C13_OnlyAllowListedPersisted ==
  \A a \in DOMAIN cmi_values : DOMAIN cmi_values[a] \subseteq AllowList

\* commits whose bodies range over allow-listed and other element names
\* have persisted a value for each of the six elements
C13_Witness ==
  /\ Committed
  /\ DOMAIN cmi_values[1] = AllowList

\* ------------------------------------------------------------------------
\* C14
\* ------------------------------------------------------------------------
\* C14: a value is persisted only if its length is at most the maximum of
\* its element. For every allow-listed element other than the lesson
\* status, a submitted value of at most the maximum length is written
\* unmodified by the loop, a longer one is never written, and no stored
\* value is longer than the maximum.
C14_LengthLimit ==
  [][ /\ (Wrote(req') /\ req'.el # LessonStatus)
           => cmi_values'[req'.attempt][req'.el] = req'.body[req'.el]
      /\ LoopEnded(req')
           => \A el \in (DOMAIN req'.body \cap AllowList) \ {LessonStatus} :
                value_chars(req'.body[el]) <= MaxOf(el) <=> el \notin DOMAIN req'.left
      /\ \A a \in DOMAIN cmi_values' : \A el \in DOMAIN cmi_values'[a] :
           value_chars(cmi_values'[a][el]) <= MaxOf(el) ]_vars

\* ------------------------------------------------------------------------
\* C15
\* ------------------------------------------------------------------------
\* the six enum strings of the specification and the spelling of the code
KnownStatuses ==
  {"passed", "failed", "completed", "incomplete", "browsed", "not-attempted",
   "not attempted"}

\* C15: a commit whose lesson-status value is no recognized enum string
\* writes nothing for the lesson-status element: the value persisted before,
\* if any, is still there after each step of the commit.
C15_UnknownStatusNotCoerced ==
  [][ (req'.op = "commit" /\ LessonStatus \in DOMAIN req'.body
         /\ req'.body[LessonStatus].text \notin KnownStatuses)
        => RowUnchanged(req'.attempt, LessonStatus) ]_vars

\* ------------------------------------------------------------------------
\* C16
\* ------------------------------------------------------------------------
SpecStatuses ==
  {"passed", "failed", "completed", "incomplete", "browsed", "not-attempted"}

\* C16: the validator accepts a lesson-status value exactly when it is one
\* of passed, failed, completed, incomplete, browsed, not-attempted, and
\* returns it unchanged.
C16_AcceptedStatuses ==
  (Committed /\ LessonStatus \in DOMAIN req.body)
    => LET v == req.body[LessonStatus] IN
       /\ IsSome(normalize_lesson_status(v)) <=> v \in { Text(t) : t \in SpecStatuses }
       /\ IsSome(normalize_lesson_status(v)) => normalize_lesson_status(v) = Some(v.text)

\* ------------------------------------------------------------------------
\* C17
\* ------------------------------------------------------------------------
\* the pair passes the allow-list, the length limit and, for the lesson
\* status, is an enum string recognized under either spelling of C16
Acceptable(el, v) ==
  /\ el \in AllowList
  /\ value_chars(v) <= MaxOf(el)
  /\ el = LessonStatus
       => v \in { Text(t) : t \in {"passed", "failed", "completed", "incomplete", "browsed"} }

\* the pair fails the allow-list or the length check
Rejected(el, v) == el \notin AllowList \/ value_chars(v) > MaxOf(el)

\* C17: in a commit that mixes acceptable and rejected pairs, every
\* acceptable pair is written with its submitted value by the end of the
\* loop, a rejected pair is never written, and the commit reports success
\* when it returns.
C17_RejectionsArePerPair ==
  [][ /\ Wrote(req')
           => /\ ~Rejected(req'.el, req'.body[req'.el])
              /\ Acceptable(req'.el, req'.body[req'.el])
                   => cmi_values'[req'.attempt][req'.el] = req'.body[req'.el]
      /\ LoopEnded(req')
           => \A el \in DOMAIN req'.body :
                /\ Acceptable(el, req'.body[el]) => el \notin DOMAIN req'.left
                /\ Rejected(el, req'.body[el]) => el \in DOMAIN req'.left
      /\ Returned(req') => resp' = OkResponse ]_vars

\* ------------------------------------------------------------------------
\* C18
\* ------------------------------------------------------------------------
\* C18: when a commit that carries the lesson status completed, passed or
\* failed returns, the attempt it names is completed.
C18_TerminalStatusCompletesAttempt ==
  [][ (Returned(req') /\ LessonStatus \in DOMAIN req'.body
         /\ req'.body[LessonStatus] \in { Text("completed"), Text("passed"), Text("failed") }
         /\ StatusOf(attempts', req'.attempt) # "none")
        => StatusOf(attempts', req'.attempt) = "completed" ]_vars

\* ------------------------------------------------------------------------
\* C19
\* ------------------------------------------------------------------------
\* C19: a course row or a SCO row exists only when extraction, manifest
\* location and parsing with launch resolution have all succeeded; a request
\* in which one of the three failed has persisted nothing.
C19_IngestionAllOrNothing ==
  /\ (courses # <<>> \/ sco_rows # <<>>)
       => (steps_ok = {"extract", "find", "parse"} /\ ret.tag = "Ok")
  /\ (stage \in {"error", "bad_request"} /\ steps_ok # {"extract", "find", "parse"})
       => (courses = <<>> /\ sco_rows = <<>>)

\* the manifest was read to its end, its item names a resource without
\* launch path, the request failed and nothing was persisted
C19_Witness ==
  /\ stage = "bad_request"
  /\ steps_ok = {"extract", "find"}
  /\ pc = "done" /\ ret = Err("Parse")
  /\ items # <<>> /\ DOMAIN resources # {}
  /\ resp = BadRequest("failed to parse manifest")
  /\ courses = <<>> /\ sco_rows = <<>>

\* ------------------------------------------------------------------------
\* C20
\* ------------------------------------------------------------------------
\* positions on the stack of the <resource> elements that were opened with
\* an identifier and are not yet closed
OpenResources ==
  { i \in 1..Len(opened) : local_name(opened[i]) = "resource" /\ IsSome(open_ids[i]) }

Greatest(S) == CHOOSE i \in S : \A j \in S : j <= i

\* C20: a <file href=F> tag appends F to the file list of the resource that
\* is open when the tag is read (the innermost one), and changes no other
\* resource; with no resource open, or without href, it changes nothing.
C20_FileGoesToOpenResource ==
  [][ (ReadStep /\ IsTag(ev', "file"))
        => LET h == get_attr(ev', "href") IN
           IF OpenResources # {} /\ IsSome(h)
             THEN LET id == open_ids[Greatest(OpenResources)][1]
                      old == InfoOrDefault(resources, id)
                  IN /\ DOMAIN resources' = DOMAIN resources \cup {id}
                     /\ resources'[id] = [old EXCEPT !.files = Append(@, h[1])]
                     /\ \A k \in DOMAIN resources \ {id} : resources'[k] = resources[k]
             ELSE resources' = resources ]_vars

\* ------------------------------------------------------------------------
\* C21
\* ------------------------------------------------------------------------
\* the parser state that the files read next and the result depend on
ResourceState(res, cur) == [resources |-> res, current_res_id |-> cur]

\* the state after the open/close form <resource ...></resource> of tag e:
\* the Start arm merges the tag and opens the resource, the End arm clears
\* current_res_id
AfterOpenClose(res, cur, e) == ResourceState(ResourcesAfterTag(res, e), None)

\* C21: a child-less <resource .../> tag leaves the parser in the state its
\* open/close form <resource ...></resource> would leave it in: the same
\* resource table and the same resource collecting the files that follow,
\* hence the same parse result.
C21_ResourceFormsIdentical ==
  [][ (ReadStep /\ ev'.kind = "Empty" /\ IsTag(ev', "resource"))
        => ResourceState(resources', current_res_id')
             = AfterOpenClose(resources, current_res_id, ev') ]_vars

\* ------------------------------------------------------------------------
\* C22
\* ------------------------------------------------------------------------
\* an href that is present and not the empty string
NonEmptyHref(h) == IsSome(h) /\ h[1] # ""

\* C22: href merges by last-non-empty-wins. When a <resource> tag of an
\* identifier whose record holds a non-empty href carries the empty href
\* value, the merged record keeps the earlier href.
C22_EmptyHrefKeepsEarlier ==
  [][ (ReadStep /\ IsTag(ev', "resource") /\ IsSome(get_attr(ev', "identifier"))
         /\ get_attr(ev', "href") = Some("")
         /\ NonEmptyHref(InfoOrDefault(resources, get_attr(ev', "identifier")[1]).href))
        => resources'[get_attr(ev', "identifier")[1]].href
             = resources[get_attr(ev', "identifier")[1]].href ]_vars

\* ------------------------------------------------------------------------
\* C23
\* ------------------------------------------------------------------------
\* the launch paths of the table: for each resource its direct href or,
\* without one, its first nested file href
LaunchPaths ==
  { resolve_launch_href(resources, id)[1] : id \in { k \in DOMAIN resources : Usable(k) } }

\* the candidate handed to the final lookup, tier 3 included
Candidate ==
  ChosenItemRef(first_item_ref_in_default_org, first_item_ref_any, resources, iter_order)

\* C23: on success defaultLaunch is the launch path of some resource of the
\* final table, whichever tier supplied the candidate: when tier 3 supplies
\* a launch path and the identifier lookup finds a resource under that name,
\* the result is that resource's launch path, and otherwise the path of the
\* first usable resource; it is never the bare candidate.
C23_DefaultLaunchIsLaunchPath ==
  Succeeded
    => /\ ret.default_launch \in LaunchPaths
       /\ ItemCandidate = None
            => /\ Candidate[1] \in LaunchPaths
               /\ ret.default_launch =
                    IF Usable(Candidate[1])
                      THEN resolve_launch_href(resources, Candidate[1])[1]
                      ELSE Candidate[1]

\* without items, tier 3 supplies the launch path R2 of resource R1, the
\* identifier lookup finds resource R2 under that name and defaultLaunch is
\* b.html, the launch path of R2
C23_Witness ==
  /\ Succeeded
  /\ items = <<>> /\ ItemCandidate = None
  /\ Candidate = Some("R2")
  /\ resources["R1"].href = Some("R2")
  /\ "R2" \in DOMAIN resources
  /\ ret.default_launch = "b.html"
  /\ ret.default_launch # Candidate[1]

\* ------------------------------------------------------------------------
\* C24
\* ------------------------------------------------------------------------
\* C24: the status of an attempt only moves forward. It is in_progress when
\* the attempt is created, and once completed it stays completed under every
\* interleaving of the statements of commit and finish requests, whatever
\* lesson status a later commit stores.
C24_AttemptStatusMonotonic ==
  [][ \A a \in 1..MaxAttempts :
        /\ StatusOf(attempts, a) = "none"
             => StatusOf(attempts', a) \in {"none", "in_progress"}
        /\ StatusOf(attempts, a) = "in_progress"
             => StatusOf(attempts', a) \in {"in_progress", "completed"}
        /\ StatusOf(attempts, a) = "completed"
             => StatusOf(attempts', a) = "completed" ]_vars

\* the attempt is completed and a commit that stored the lesson status
\* incomplete has read it back and returned
C24_Witness ==
  /\ StatusOf(attempts, 1) = "completed"
  /\ LoopEnded(req) /\ req.done /\ req.attempt = 1
  /\ LessonStatus \in DOMAIN req.body
  /\ req.body[LessonStatus] = Text("incomplete")
  /\ cmi_values[1][LessonStatus] = Text("incomplete")

====
